---- MODULE Spec2Model ----
(***************************************************************************)
(* Model of the ticket contract's lottery subsystem:                       *)
(*   allocation.rs  - AllocationEngine (the five strategies, the           *)
(*                    anti-sniping predicate)                              *)
(*   lib.rs         - SoulboundTicketContract (initialize_lottery,         *)
(*                    register_lottery_entry, generate_lottery_randomness, *)
(*                    execute_lottery_allocation)                          *)
(* A Rust panic is modelled as an aborted call: the engine operators       *)
(* return [ok |-> FALSE] and a contract action is not enabled (Soroban     *)
(* rolls a panicking invocation back).                                     *)
(***************************************************************************)
EXTENDS Integers, Sequences, FiniteSets, TLC

VARIABLES
    ledger,            \* e.ledger(): [sequence, timestamp]
    tiers,             \* DataKey::Tier(symbol) keys present in storage
    allocation_state,  \* DataKey::AllocationState(tier) -> Option<AllocationConfig>
    anti_sniping_cfg,  \* DataKey::AntiSnipingConfig(tier) -> Option<AntiSnipingConfig>
    entry_count,       \* DataKey::LotteryEntryCount(tier) -> u32 (absent = 0)
    lottery_entry,     \* DataKey::LotteryEntry(tier, i) -> LotteryEntry
    vrf_state,         \* DataKey::VRFState -> Option<VRFState>
    lottery_results,   \* DataKey::LotteryResults(tier) -> Option<Vec<AllocationResult>>
    randomness_for,    \* history: tiers generate_lottery_randomness succeeded for
    event_info,        \* DataKey::EventInfo: [start_time, refund_cutoff_time]
    tier_supply,       \* DataKey::Tier(symbol) -> Option<[max_supply, minted, active]>
    token_id_counter,  \* DataKey::TokenIdCounter
    ticket,            \* DataKey::Ticket(id) for id = 1..Len(ticket)
    token_owner,       \* Base: owner of token id k at position k + 1 (None once burnt)
    entropy_state,     \* the EntropyState its owner holds (Option<EntropyState>)
    input,             \* engine harness: the arguments of one engine call
    output             \* engine harness: what that call returned

vars == <<ledger, tiers, allocation_state, anti_sniping_cfg, entry_count,
          lottery_entry, vrf_state, lottery_results, randomness_for,
          event_info, tier_supply, token_id_counter, ticket, token_owner,
          entropy_state, input, output>>

lottery_vars == <<allocation_state, anti_sniping_cfg, entry_count, lottery_entry,
                  vrf_state, lottery_results, randomness_for>>

ticket_vars == <<event_info, tier_supply, token_id_counter, ticket, token_owner>>

contract_vars == <<ledger, tiers, lottery_vars, ticket_vars>>

harness_vars == <<entropy_state, input, output>>

(***************************************************************************)
(* Option<T>: None is the empty sequence, Some(x) the one-element sequence *)
(***************************************************************************)
None == <<>>

Some(x) == <<x>>

Min(a, b) == IF a < b THEN a ELSE b

Max(a, b) == IF a > b THEN a ELSE b

saturating_sub(a, b) == IF a >= b THEN a - b ELSE 0

(***************************************************************************)
(* u32 values that may come near 2^32 are kept as two 16-bit limbs         *)
(* <<hi, lo>> (value = hi * 2^16 + lo); a "wide" value is a pair whose hi  *)
(* may exceed 16 bits: the exact result of an operation before it is       *)
(* fitted into 32 bits.                                                    *)
(***************************************************************************)
Limb == 65536

U32(n) == <<n \div Limb, n % Limb>>

U32_MAX == <<Limb - 1, Limb - 1>>

wide_lt(a, b) == a[1] < b[1] \/ (a[1] = b[1] /\ a[2] < b[2])

wide_le(a, b) == a = b \/ wide_lt(a, b)

\* the exact sum
wide_add(a, b) ==
    LET lo == a[2] + b[2] IN <<a[1] + b[1] + (lo \div Limb), lo % Limb>>

\* the exact product with a small factor
wide_mul(a, m) ==
    LET lo == a[2] * m IN <<a[1] * m + (lo \div Limb), lo % Limb>>

fits_u32(w) == w[1] < Limb

\* the low 32 bits
u32_wrap(w) == <<w[1] % Limb, w[2]>>

\* a - b for a >= b
u32_sub(a, b) ==
    IF a[2] >= b[2] THEN <<a[1] - b[1], a[2] - b[2]>>
    ELSE <<a[1] - b[1] - 1, a[2] + Limb - b[2]>>

\* mutant of u32_saturating_add: the sum wraps around
u32_wrapping_add(a, b) == u32_wrap(wide_add(a, b))

u32_saturating_add(a, b) ==
    IF fits_u32(wide_add(a, b)) THEN wide_add(a, b) ELSE U32_MAX

u32_saturating_sub(a, b) == IF wide_lt(a, b) THEN U32(0) ELSE u32_sub(a, b)

\* the exact quotient of a wide value by a small divisor (d < 2^15)
wide_div_small(n, d) == <<n[1] \div d, ((n[1] % d) * Limb + n[2]) \div d>>

\* the integer quotient n / d, known to be at most qmax
wide_div(n, d, qmax) ==
    CHOOSE q \in 0..qmax : wide_le(wide_mul(d, q), n) /\ wide_lt(n, wide_mul(d, q + 1))

(***************************************************************************)
(* AllocationEngine (allocation.rs)                                        *)
(***************************************************************************)
AllocationResult(winner, allocation_index, randomness_value, weight_applied) ==
    [winner |-> winner, allocation_index |-> allocation_index,
     randomness_value |-> randomness_value, weight_applied |-> weight_applied]

Returned(results) == [ok |-> TRUE, results |-> results]

Abort == [ok |-> FALSE, results |-> <<>>]

\* mutant of allocate_fcfs: the entries are served from the back of the list
allocate_fcfs_newest_first(entries, quantity) ==
    Returned([k \in 1..Min(quantity, Len(entries)) |->
                AllocationResult(entries[Len(entries) - k + 1].participant, k - 1, 0, 1)])

\* for i in 0..quantity.min(entries.len()) : push entries[i]
allocate_fcfs(entries, quantity) ==
    Returned([k \in 1..Min(quantity, Len(entries)) |->
                AllocationResult(entries[k].participant, k - 1, 0, 1)])

\* for &selected in &selected_indices { if actual_index >= selected { actual_index += 1 } }
\* (selected_indices is walked in insertion order)
RECURSIVE adjust_index(_, _, _)
adjust_index(actual_index, selected_indices, k) ==
    IF k > Len(selected_indices) THEN actual_index
    ELSE adjust_index(IF actual_index >= selected_indices[k]
                        THEN actual_index + 1 ELSE actual_index,
                      selected_indices, k + 1)

\* mutant of lottery_draw: the pool is not shrunk by the entries already selected
lottery_draw_full_pool(entries, randomness, i, st) ==
    LET pool_size == Len(entries)
    IN  IF pool_size <= 0
          THEN [st EXCEPT !.ok = FALSE]
          ELSE LET index == randomness % pool_size
                   actual_index == adjust_index(index, st.selected_indices, 1)
               IN  IF actual_index < Len(entries)
                     THEN [ok |-> TRUE,
                           results |-> Append(st.results,
                               AllocationResult(entries[actual_index + 1].participant,
                                                i, randomness, 1)),
                           selected_indices |-> Append(st.selected_indices, actual_index)]
                     ELSE st

\* one iteration of the draw loop of allocate_lottery; st is the loop state
\* [ok, results, selected_indices], i the 0-based draw number
lottery_draw(entries, randomness, i, st) ==
    LET pool_size == Len(entries) - Len(st.selected_indices)
    IN  IF pool_size <= 0
          THEN [st EXCEPT !.ok = FALSE]      \* randomness % 0 panics
          ELSE LET index == randomness % pool_size
                   actual_index == adjust_index(index, st.selected_indices, 1)
               IN  IF actual_index < Len(entries)
                     THEN [ok |-> TRUE,
                           results |-> Append(st.results,
                               AllocationResult(entries[actual_index + 1].participant,
                                                i, randomness, 1)),
                           selected_indices |-> Append(st.selected_indices, actual_index)]
                     ELSE st

RECURSIVE lottery_loop(_, _, _, _, _)
lottery_loop(entries, randomness_values, n, i, st) ==
    IF i >= n \/ ~st.ok THEN st
    ELSE lottery_loop(entries, randomness_values, n, i + 1,
                      lottery_draw(entries, randomness_values[i + 1], i, st))

\* the state of allocate_lottery's loop at its exit
lottery_run(entries, randomness_values, quantity) ==
    lottery_loop(entries, randomness_values,
                 Min(quantity, Len(randomness_values)), 0,
                 [ok |-> TRUE, results |-> <<>>, selected_indices |-> <<>>])

allocate_lottery(entries, randomness_values, quantity) ==
    LET st == lottery_run(entries, randomness_values, quantity)
    IN  IF st.ok THEN Returned(st.results) ELSE Abort

\* mutant of whitelist_eligible: `<=` for `<`
whitelist_eligible_le(entry) ==
    entry.allocated <= entry.allocation_limit \/ entry.allocation_limit = 0

\* the eligibility test shared by allocate_whitelist and the hybrid's phase 1
whitelist_eligible(entry) ==
    entry.allocated < entry.allocation_limit \/ entry.allocation_limit = 0

\* mutant of whitelist_loop: the `allocation_count >= quantity` break is missing
RECURSIVE whitelist_loop_no_break(_, _, _, _)
whitelist_loop_no_break(whitelist, quantity, i, results) ==
    IF i >= Len(whitelist) THEN results
    ELSE whitelist_loop_no_break(whitelist, quantity, i + 1,
             IF whitelist_eligible(whitelist[i + 1])
               THEN Append(results,
                        AllocationResult(whitelist[i + 1].address, Len(results), 0,
                                         whitelist[i + 1].weight))
               ELSE results)

\* the first-pass loop over the whitelist: i is the 0-based position, results the
\* vector built so far (allocation_count = Len(results))
RECURSIVE whitelist_loop(_, _, _, _)
whitelist_loop(whitelist, quantity, i, results) ==
    IF i >= Len(whitelist) \/ Len(results) >= quantity THEN results
    ELSE whitelist_loop(whitelist, quantity, i + 1,
             IF whitelist_eligible(whitelist[i + 1])
               THEN Append(results,
                        AllocationResult(whitelist[i + 1].address, Len(results), 0,
                                         whitelist[i + 1].weight))
               ELSE results)

allocate_whitelist(whitelist, quantity) ==
    Returned(whitelist_loop(whitelist, quantity, 0, <<>>))

\* mutant of allocate_hybrid_whitelist_lottery: the lottery winners keep the
\* allocation_index allocate_lottery gave them
allocate_hybrid_no_offset(whitelist, lottery_entries, randomness_values, quantity) ==
    LET phase1 == whitelist_loop(whitelist, quantity, 0, <<>>)
        lottery == allocate_lottery(lottery_entries, randomness_values,
                                    quantity - Len(phase1))
    IN  IF ~lottery.ok THEN Abort ELSE Returned(phase1 \o lottery.results)

allocate_hybrid_whitelist_lottery(whitelist, lottery_entries, randomness_values, quantity) ==
    LET phase1 == whitelist_loop(whitelist, quantity, 0, <<>>)
        whitelist_allocated == Len(phase1)
        remaining == quantity - whitelist_allocated
        lottery == allocate_lottery(lottery_entries, randomness_values, remaining)
    IN  IF ~lottery.ok THEN Abort
        ELSE Returned(phase1 \o
                 [k \in 1..Len(lottery.results) |->
                     AllocationResult(lottery.results[k].winner,
                         whitelist_allocated + lottery.results[k].allocation_index,
                         lottery.results[k].randomness_value,
                         lottery.results[k].weight_applied)])

\* latest_time: the maximum entry_time, scanning from entries[0]
RECURSIVE max_entry_time(_, _, _)
max_entry_time(entries, k, max_time) ==
    IF k > Len(entries) THEN max_time
    ELSE max_entry_time(entries, k + 1,
             IF entries[k].entry_time > max_time THEN entries[k].entry_time ELSE max_time)

\* the weight of one entry (current_time >= entry_time); (age * 100) is a u64
\* product, `age_percentage as u32` keeps its low 32 bits
time_weight(current_time, entry_time, earliest_time, latest_time) ==
    LET age == current_time - entry_time
        time_span == latest_time - earliest_time
        age_percentage == wide_div_small(wide_mul(U32(age), 100), time_span + 1)
        weight == IF time_span > 0
                    THEN u32_saturating_sub(U32(100), u32_wrap(age_percentage))[2]
                    ELSE 100
    IN  Max(weight, 1)

time_weights(current_time, entries) ==
    IF Len(entries) = 0 THEN <<>>
    ELSE LET earliest_time == entries[1].entry_time
             latest_time == max_entry_time(entries, 1, earliest_time)
         IN  [k \in 1..Len(entries) |->
                 time_weight(current_time, entries[k].entry_time, earliest_time, latest_time)]

RECURSIVE sum_weights(_, _)
sum_weights(weights, k) ==
    IF k > Len(weights) THEN 0 ELSE weights[k] + sum_weights(weights, k + 1)

\* mutant of weighted_pick: `<` for `<=`
RECURSIVE weighted_pick_lt(_, _, _, _)
weighted_pick_lt(weights, selection_value, j, cumulative) ==
    IF j >= Len(weights) THEN None
    ELSE LET c == cumulative + weights[j + 1]
         IN  IF selection_value < c THEN Some(j)
             ELSE weighted_pick_lt(weights, selection_value, j + 1, c)

\* the walk over the entries of one draw: Some(j) for the first 0-based j with
\* selection_value <= cumulative, None when the walk ends without a pick
RECURSIVE weighted_pick(_, _, _, _)
weighted_pick(weights, selection_value, j, cumulative) ==
    IF j >= Len(weights) THEN None
    ELSE LET c == cumulative + weights[j + 1]
         IN  IF selection_value <= c THEN Some(j)
             ELSE weighted_pick(weights, selection_value, j + 1, c)

RECURSIVE time_weighted_loop(_, _, _, _, _, _)
time_weighted_loop(entries, weights, randomness_values, n, i, results) ==
    IF i >= n THEN results
    ELSE LET randomness == randomness_values[i + 1]
             total_weight == sum_weights(weights, 1)
             pick == IF total_weight > 0
                       THEN weighted_pick(weights, randomness % total_weight, 0, 0)
                       ELSE None
         IN  time_weighted_loop(entries, weights, randomness_values, n, i + 1,
                 IF pick = None THEN results
                 ELSE Append(results,
                          AllocationResult(entries[pick[1] + 1].participant, i,
                                           randomness, weights[pick[1] + 1])))

\* current_time - entry.entry_time is an unsigned subtraction: an entry from the
\* future makes the call panic
allocate_time_weighted(current_time, entries, randomness_values, quantity) ==
    IF \E k \in 1..Len(entries) : entries[k].entry_time > current_time THEN Abort
    ELSE Returned(time_weighted_loop(entries, time_weights(current_time, entries),
                      randomness_values, Min(quantity, Len(randomness_values)), 0, <<>>))

\* recent_count after scanning recent_entries[k..]
RECURSIVE recent_count(_, _, _, _)
recent_count(participant, window_start, recent_entries, k) ==
    IF k > Len(recent_entries) THEN 0
    ELSE (IF recent_entries[k].participant = participant
             /\ recent_entries[k].entry_time >= window_start THEN 1 ELSE 0)
         + recent_count(participant, window_start, recent_entries, k + 1)

\* mutant of check_anti_sniping: `<=` for `<`
check_anti_sniping_le(current_time, participant, config, recent_entries) ==
    LET window_start == saturating_sub(current_time, config.rate_limit_window)
    IN  recent_count(participant, window_start, recent_entries, 1)
            <= config.max_entries_per_address

check_anti_sniping(current_time, participant, config, recent_entries) ==
    LET window_start == saturating_sub(current_time, config.rate_limit_window)
    IN  recent_count(participant, window_start, recent_entries, 1)
            < config.max_entries_per_address

\* mutant of compute_fairness_score: a selection rate of 0 is scored like a
\* rate of 1..100
compute_fairness_score_no_fallback(results, total_entries) ==
    IF Len(results) = 0 \/ total_entries = 0 THEN 100
    ELSE LET selection_rate == (Len(results) * 100) \div total_entries
         IN  IF selection_rate <= 100 THEN 100
             ELSE Max(100 - Min(selection_rate - 100, 100), 0)

\* mutant of compute_fairness_score: the excess over 100% is not capped
compute_fairness_score_uncapped(results, total_entries) ==
    IF Len(results) = 0 \/ total_entries = 0 THEN 100
    ELSE LET selection_rate == (Len(results) * 100) \div total_entries
         IN  IF selection_rate > 0 /\ selection_rate <= 100 THEN 100
             ELSE IF selection_rate > 100 THEN 100 - (selection_rate - 100)
             ELSE 50

compute_fairness_score(results, total_entries) ==
    IF Len(results) = 0 \/ total_entries = 0 THEN 100
    ELSE LET selection_rate == (Len(results) * 100) \div total_entries
         IN  IF selection_rate > 0 /\ selection_rate <= 100 THEN 100
             ELSE IF selection_rate > 100
                    THEN Max(100 - Min(selection_rate - 100, 100), 0)
             ELSE 50

(***************************************************************************)
(* Bounds of the engine harness                                            *)
(***************************************************************************)
MaxLen == 3          \* longest entries list

MaxDraws == 3        \* longest randomness batch

MaxRand == 2         \* randomness values are 0..MaxRand

MaxWhitelist == 2    \* longest whitelist

MaxLimit == 2        \* largest allocation_limit

MaxTime == 2         \* ledger timestamps of the harness are 0..MaxTime

MaxCounter == 2      \* u32 samples lie within MaxCounter of 0 and of u32::MAX

\* the largest u32 whose product with 100 still fits 32 bits
MulEdge == 42949672

\* the smallest age whose age_percentage over a time_span of 1 exceeds u32::MAX
\* (TruncationAge * 100 / 2 = 2^32 + 4)
TruncationAge == 85899346

\* u32 values at the low end, at the high end and around MulEdge
U32Samples ==
    {U32(k) : k \in 0..MaxCounter}
    \cup {u32_sub(U32_MAX, U32(k)) : k \in 0..MaxCounter}
    \cup {U32(MulEdge + k) : k \in 0..1}
    \cup {U32(100)}

\* sequences over S of length 0..n
RECURSIVE SeqsUpTo(_, _)
SeqsUpTo(S, n) ==
    IF n = 0 THEN {<<>>}
    ELSE LET shorter == SeqsUpTo(S, n - 1)
         IN  shorter \cup {Append(q, x) : q \in {r \in shorter : Len(r) = n - 1}, x \in S}

LotteryEntry(participant, entry_time, nonce) ==
    [participant |-> participant, entry_time |-> entry_time, nonce |-> nonce]

\* n entries of n distinct participants registered at one timestamp, as the
\* tests build them (Address::generate, nonce: i)
DistinctEntries(n) == [k \in 1..n |-> LotteryEntry(k, 0, k - 1)]

\* entries of any participants and entry times (entry_time <= MaxTime)
AnyEntries ==
    SeqsUpTo({LotteryEntry(p, t, 0) : p \in {1, 2}, t \in 0..MaxTime}, MaxLen)

\* entries of distinct participants with any entry times
TimedEntries ==
    {[k \in 1..Len(ts) |-> LotteryEntry(k, ts[k], k - 1)] : ts \in SeqsUpTo(0..MaxTime, MaxLen)}

RandomnessBatches == SeqsUpTo(0..MaxRand, MaxDraws)

\* batches that repeat one value; the weighted draws use multiples of 50 so that
\* every bucket of a pool of weights <= 100 is hit
RepeatedBatches(values) ==
    {[k \in 1..n |-> r] : n \in 0..MaxDraws, r \in values}

\* batches of descending values 50 + 100 * k: with weights of 100 the draws of
\* one call fall on different entries
StaircaseBatches == {[k \in 1..n |-> 50 + 100 * (n - k)] : n \in 2..MaxDraws}

Quantities == 0..(MaxDraws + 1)

WhitelistEntry(address, weight, allocation_limit, allocated) ==
    [address |-> address, weight |-> weight,
     allocation_limit |-> allocation_limit, allocated |-> allocated]

\* whitelists of distinct addresses; allocated <= allocation_limit, or any count
\* when the limit is 0 (unlimited)
Whitelists ==
    {[k \in 1..Len(w) |-> WhitelistEntry(k, w[k][1] + 1, w[k][1], w[k][2])] :
        w \in SeqsUpTo({<<l, a>> \in (0..MaxLimit) \X (0..MaxLimit) : l = 0 \/ a <= l},
                       MaxWhitelist)}

AntiSnipingConfig(max_entries_per_address, rate_limit_window) ==
    [minimum_lock_period |-> 10, max_entries_per_address |-> max_entries_per_address,
     rate_limit_window |-> rate_limit_window, randomization_delay_ledgers |-> 3]

EngineInputs ==
    [fn : {"allocate_fcfs"}, entries : AnyEntries, quantity : Quantities]
    \cup [fn : {"allocate_lottery"}, entries : {DistinctEntries(n) : n \in 0..MaxLen},
          randomness_values : RandomnessBatches, quantity : Quantities]
    \cup [fn : {"allocate_whitelist"}, whitelist : Whitelists, quantity : Quantities]
    \cup [fn : {"allocate_hybrid_whitelist_lottery"}, whitelist : Whitelists,
          entries : {DistinctEntries(n) : n \in 0..MaxLen},
          randomness_values : RepeatedBatches(0..MaxRand), quantity : Quantities]
    \cup [fn : {"allocate_time_weighted"},
          current_time : {MaxTime, 2 * MaxTime, TruncationAge},
          entries : TimedEntries,
          randomness_values : RepeatedBatches({50 * r : r \in 0..(2 * MaxLen)})
                              \cup StaircaseBatches,
          quantity : Quantities]
    \cup [fn : {"check_anti_sniping"}, current_time : {MaxTime},
          participant : {1, 2},
          config : {AntiSnipingConfig(m, w) : m \in 0..MaxLen, w \in 0..(MaxTime + 1)},
          entries : AnyEntries]
    \cup [fn : {"get_entropy_freshness"}, current_counter : U32Samples,
          last_counter : U32Samples, max_reuse_count : U32Samples]
    \cup [fn : {"compute_fairness_score"},
          results : {allocate_fcfs(DistinctEntries(n), n).results : n \in 0..MaxLen},
          total_entries : (0..(MaxLen + 1))
                          \cup {100 * k + d : k \in 1..MaxLen, d \in 0..1}]

(***************************************************************************)
(* The contract's storage after deployment (lib.rs)                        *)
(***************************************************************************)
NumTiers == 2

Tiers == 1..NumTiers

\* the refund_cutoff_time the contract is initialized with
RefundCutoff == 0

ContractInit ==
    /\ ledger = [sequence |-> 0, timestamp |-> 0]
    /\ tiers = {}
    /\ allocation_state = [t \in Tiers |-> None]
    /\ anti_sniping_cfg = [t \in Tiers |-> None]
    /\ entry_count = [t \in Tiers |-> 0]
    /\ lottery_entry = [t \in Tiers |-> <<>>]
    /\ vrf_state = None
    /\ lottery_results = [t \in Tiers |-> None]
    /\ randomness_for = {}
    /\ event_info = [start_time |-> 0, refund_cutoff_time |-> RefundCutoff]
    /\ tier_supply = [t \in Tiers |-> None]
    /\ token_id_counter = 0
    /\ ticket = <<>>
    /\ token_owner = <<>>

(***************************************************************************)
(* SoulboundTicketContract (lib.rs): the lottery operations.  Every action *)
(* is one invocation that returns; its guard is the negation of the        *)
(* invocation's panics (a panicking invocation is rolled back and leaves   *)
(* no trace in storage).                                                   *)
(***************************************************************************)
StrategyTypes == {"FCFS", "Lottery", "Whitelist", "HybridWhitelistLottery", "TimeWeighted"}

\* the host closes a ledger: the sequence number and the close time advance
AdvanceLedger(seconds) ==
    /\ ledger' = [sequence |-> ledger.sequence + 1,
                  timestamp |-> ledger.timestamp + seconds]
    /\ UNCHANGED <<tiers, allocation_state, anti_sniping_cfg, entry_count,
                   lottery_entry, vrf_state, lottery_results, randomness_for>>
    /\ UNCHANGED <<ticket_vars, harness_vars>>

add_tier(t, max_supply) ==
    /\ t \notin tiers                                     \* "Tier already exists"
    /\ tiers' = tiers \cup {t}
    /\ tier_supply' = [tier_supply EXCEPT ![t] =
           Some([max_supply |-> max_supply, minted |-> 0, active |-> TRUE])]
    /\ UNCHANGED <<ledger, lottery_vars, event_info, token_id_counter, ticket,
                   token_owner>>
    /\ UNCHANGED harness_vars

AllocationConfig(strategy, total_allocations, finalization_ledger, reveal_start_ledger, reveal_end_ledger) ==
    [strategy |-> strategy, total_allocations |-> total_allocations,
     allocated_count |-> 0, allocation_complete |-> FALSE,
     finalization_ledger |-> finalization_ledger,
     reveal_start_ledger |-> reveal_start_ledger,
     reveal_end_ledger |-> reveal_end_ledger]

\* the minimum_lock_period initialize_lottery stores for every tier; no
\* operation reads it
minimum_lock_period == 10

\* the anti-sniping configuration initialize_lottery stores for every tier
DefaultAntiSniping == AntiSnipingConfig(5, 3600)

\* the panics of initialize_lottery
initialize_lottery_panics(t, finalization_ledger, reveal_start_ledger, reveal_end_ledger) ==
    \/ t \notin tiers                                     \* "Tier not found"
    \/ finalization_ledger < ledger.sequence
    \/ reveal_start_ledger >= reveal_end_ledger           \* "Reveal timeline invalid"

initialize_lottery(t, strategy_type, total_allocations, finalization_ledger, reveal_start_ledger, reveal_end_ledger) ==
    /\ ~initialize_lottery_panics(t, finalization_ledger, reveal_start_ledger,
                                  reveal_end_ledger)
    /\ allocation_state' = [allocation_state EXCEPT ![t] =
           Some(AllocationConfig(strategy_type, total_allocations, finalization_ledger,
                                 reveal_start_ledger, reveal_end_ledger))]
    /\ anti_sniping_cfg' = [anti_sniping_cfg EXCEPT ![t] = Some(DefaultAntiSniping)]
    /\ UNCHANGED <<ledger, tiers, entry_count, lottery_entry, vrf_state,
                   lottery_results, randomness_for>>
    /\ UNCHANGED <<ticket_vars, harness_vars>>

\* the entries stored for tier t under the indices 0..n-1, in index order
RECURSIVE load_entries(_, _, _)
load_entries(t, n, i) ==
    IF i >= n THEN <<>>
    ELSE (IF i \in DOMAIN lottery_entry[t] THEN <<lottery_entry[t][i]>> ELSE <<>>)
         \o load_entries(t, n, i + 1)

\* how many stored entries the rate limit of register_lottery_entry looks at
RecentScan == 10

\* the anti-sniping check of register_lottery_entry for participant p
register_allowed(t, p) ==
    IF anti_sniping_cfg[t] = None THEN TRUE
    ELSE check_anti_sniping(ledger.timestamp, p, anti_sniping_cfg[t][1],
                            load_entries(t, Min(entry_count[t], RecentScan), 0))

\* mutant of register_lottery_entry: the incremented count is not stored
register_lottery_entry_count_not_stored(t, p) ==
    /\ register_allowed(t, p)
    /\ LET entry == LotteryEntry(p, ledger.timestamp, ledger.sequence)
           count == entry_count[t]
       IN  lottery_entry' = [lottery_entry EXCEPT ![t] =
               [i \in DOMAIN lottery_entry[t] \cup {count} |->
                   IF i = count THEN entry ELSE lottery_entry[t][i]]]
    /\ UNCHANGED <<ledger, tiers, allocation_state, anti_sniping_cfg, entry_count,
                   vrf_state, lottery_results, randomness_for>>
    /\ UNCHANGED <<ticket_vars, harness_vars>>

register_lottery_entry(t, p) ==
    /\ register_allowed(t, p)                             \* "Rate limit exceeded"
    /\ LET entry == LotteryEntry(p, ledger.timestamp, ledger.sequence)
           count == entry_count[t]
       IN  /\ lottery_entry' = [lottery_entry EXCEPT ![t] =
                  [i \in DOMAIN lottery_entry[t] \cup {count} |->
                      IF i = count THEN entry ELSE lottery_entry[t][i]]]
           /\ entry_count' = [entry_count EXCEPT ![t] = count + 1]
    /\ UNCHANGED <<ledger, tiers, allocation_state, anti_sniping_cfg, vrf_state,
                   lottery_results, randomness_for>>
    /\ UNCHANGED <<ticket_vars, harness_vars>>

(***************************************************************************)
(* EntropyManager (entropy.rs)                                             *)
(***************************************************************************)
\* e.ledger().hash(): one hash per ledger
ledger_hash == <<"ledger_hash", ledger.sequence>>

EntropyState(last_ledger_hash, last_entropy_timestamp, entropy_counter, entropy_ready) ==
    [last_ledger_hash |-> last_ledger_hash,
     last_entropy_timestamp |-> last_entropy_timestamp,
     entropy_counter |-> entropy_counter, entropy_ready |-> entropy_ready]

initialize_entropy ==
    /\ entropy_state' = Some(EntropyState(ledger_hash, ledger.timestamp, U32(0), TRUE))
    /\ UNCHANGED <<contract_vars, input, output>>

generate_ledger_entropy == ledger_hash

generate_entropy_with_timestamp == <<"sha256", ledger_hash, ledger.timestamp>>

\* EntropyManager::generate_multi_source_entropy(e, counter): the digest of
\* (ledger hash, timestamp, sequence, counter); the ledger hash is fixed by the
\* ledger, so the digest is named by the other three
generate_multi_source_entropy(counter) ==
    <<"sha256", ledger.timestamp, ledger.sequence, counter>>

verify_entropy_freshness(state, new_entropy) == new_entropy # state.last_ledger_hash

update_entropy_state ==
    /\ entropy_state # None
    /\ entropy_state' = Some([entropy_state[1] EXCEPT
           !.last_ledger_hash = ledger_hash,
           !.last_entropy_timestamp = ledger.timestamp,
           !.entropy_counter = u32_saturating_add(@, U32(1))])
    /\ UNCHANGED <<contract_vars, input, output>>

EntropySources == {"LedgerHash", "LedgerHashWithTimestamp", "MultiSource"}

\* the counter generate_entropy passes for EntropySource::MultiSource
multi_source_counter == 0

generate_entropy(source) ==
    CASE source = "LedgerHash" -> generate_ledger_entropy
      [] source = "LedgerHashWithTimestamp" -> generate_entropy_with_timestamp
      [] source = "MultiSource" -> generate_multi_source_entropy(multi_source_counter)

\* the outcomes of get_entropy_freshness on u32 arguments (limb pairs); the
\* product (max_reuse_count - reuse_count) * 100 is a u32 multiplication: when
\* it exceeds 32 bits the call panics (overflow checks on) or goes on with the
\* low 32 bits (overflow checks off)
get_entropy_freshness(current_counter, last_counter, max_reuse_count) ==
    LET reuse_count == u32_saturating_sub(current_counter, last_counter)
        product == wide_mul(u32_sub(max_reuse_count, reuse_count), 100)
    IN  IF wide_le(max_reuse_count, reuse_count)
          THEN {[ok |-> TRUE, value |-> 0]}
          ELSE IF fits_u32(product)
                 THEN {[ok |-> TRUE, value |-> wide_div(product, max_reuse_count, 100)]}
                 ELSE {[ok |-> FALSE, value |-> 0],
                       [ok |-> TRUE,
                        value |-> wide_div(u32_wrap(product), max_reuse_count, 100)]}

(***************************************************************************)
(* SoulboundTicketContract (lib.rs), continued                             *)
(***************************************************************************)
\* the counter generate_lottery_randomness passes
lottery_counter == 0

\* the entropy generate_lottery_randomness derives
lottery_entropy == generate_multi_source_entropy(lottery_counter)

\* VRFEngine: the digest of the batch derived from seed for batch_size draws
hash_randomness_batch(batch_size, seed) == <<"sha256", batch_size, seed>>

\* the panics of generate_lottery_randomness
generate_lottery_randomness_panics(t) ==
    IF allocation_state[t] = None THEN TRUE               \* "Allocation not initialized"
    ELSE ledger.sequence < allocation_state[t][1].finalization_ledger

generate_lottery_randomness(t, batch_size) ==
    /\ ~generate_lottery_randomness_panics(t)
    /\ vrf_state' = Some(
           [randomness_generated |-> TRUE,
            randomness_hash |->
                hash_randomness_batch(batch_size, lottery_entropy),
            batch_nonce |-> 0,
            finalization_ledger |-> allocation_state[t][1].finalization_ledger])
    /\ randomness_for' = randomness_for \cup {t}
    /\ UNCHANGED <<ledger, tiers, allocation_state, anti_sniping_cfg, entry_count,
                   lottery_entry, lottery_results>>
    /\ UNCHANGED <<ticket_vars, harness_vars>>

\* mutant of randomness_missing: the VRF state is not looked at
randomness_missing_unchecked == FALSE

\* "Randomness not generated" / "Randomness not ready"
randomness_missing ==
    vrf_state = None \/ ~vrf_state[1].randomness_generated

\* the match on state.strategy
run_strategy(strategy, entries, randomness_values, total_allocations) ==
    CASE strategy = "FCFS" -> allocate_fcfs(entries, total_allocations)
      [] strategy = "Lottery" ->
            allocate_lottery(entries, randomness_values, total_allocations)
      [] strategy = "TimeWeighted" ->
            allocate_time_weighted(ledger.timestamp, entries, randomness_values,
                                   total_allocations)
      [] OTHER -> Abort                               \* "Strategy not yet implemented"

\* what execute_lottery_allocation computes before it writes: Abort when the
\* invocation panics, the results it is about to store otherwise
execute_outcome(t, randomness_values) ==
    IF allocation_state[t] = None \/ randomness_missing
      THEN Abort
      ELSE run_strategy(allocation_state[t][1].strategy,
                        load_entries(t, entry_count[t], 0), randomness_values,
                        allocation_state[t][1].total_allocations)

\* mutant of execute_lottery_allocation: the results are stored and the
\* configuration is left as it was
execute_lottery_allocation_uncounted(t, randomness_values) ==
    /\ execute_outcome(t, randomness_values).ok
    /\ lottery_results' = [lottery_results EXCEPT
           ![t] = Some(execute_outcome(t, randomness_values).results)]
    /\ UNCHANGED <<ledger, tiers, allocation_state, anti_sniping_cfg, entry_count,
                   lottery_entry, vrf_state, randomness_for>>
    /\ UNCHANGED <<ticket_vars, harness_vars>>

execute_lottery_allocation(t, randomness_values) ==
    /\ execute_outcome(t, randomness_values).ok
    /\ LET state == allocation_state[t][1]
           results == execute_outcome(t, randomness_values).results
       IN  /\ lottery_results' = [lottery_results EXCEPT ![t] = Some(results)]
           /\ allocation_state' = [allocation_state EXCEPT ![t] =
                  Some([state EXCEPT
                      !.allocated_count = Min(Len(results), state.total_allocations),
                      !.allocation_complete = TRUE])]
    /\ UNCHANGED <<ledger, tiers, anti_sniping_cfg, entry_count, lottery_entry,
                   vrf_state, randomness_for>>
    /\ UNCHANGED <<ticket_vars, harness_vars>>

(***************************************************************************)
(* VRFEngine (vrf.rs) and CommitmentScheme (commitment.rs), after their    *)
(* specification (sections 4.2 and 4.3).  A digest is the tuple of what is *)
(* hashed: two digests are equal exactly when their inputs are.            *)
(***************************************************************************)
\* digest(seed || nonce || height)
vrf_output(seed, nonce, height) == <<"sha256", seed, nonce, height>>

VRFProof(out, blob, in, ledger_sequence, nonce) ==
    [output |-> out, proof |-> blob, input |-> in,
     ledger_sequence |-> ledger_sequence, nonce |-> nonce]

\* (output, proof) at the current height; the proof blob binds output to input
generate_vrf_randomness(seed, nonce) ==
    LET out == vrf_output(seed, nonce, ledger.sequence)
    IN  [output |-> out,
         proof |-> VRFProof(out, <<"proof", out, seed>>, seed, ledger.sequence, nonce)]

\* input and height match and the derivation from (original_input, proof.nonce)
\* at that height reproduces proof.output
verify_vrf_proof(proof, original_input, expected_ledger) ==
    /\ proof.input = original_input
    /\ proof.ledger_sequence = expected_ledger
    /\ vrf_output(original_input, proof.nonce, expected_ledger) = proof.output

\* mutant of verify_lottery_randomness: the proof is checked against the ledger
\* of the verification instead of expected_ledger
verify_lottery_randomness_now(proof, original_input, expected_ledger) ==
    verify_vrf_proof(proof, original_input, ledger.sequence)

\* lib.rs: the contract's entry point hands its arguments to the engine
verify_lottery_randomness(proof, original_input, expected_ledger) ==
    verify_vrf_proof(proof, original_input, expected_ledger)

\* digest(seed || nonce || committer-identity)
commitment_digest(seed, nonce, committer) == <<"sha256", seed, nonce, committer>>

Commitment(committer, commitment_hash, committed_at, revealed) ==
    [committer |-> committer, commitment_hash |-> commitment_hash,
     committed_at |-> committed_at, revealed |-> revealed]

Reveal(seed, nonce, revealed_at) ==
    [seed |-> seed, nonce |-> nonce, revealed_at |-> revealed_at]

commit(seed, nonce, committer) ==
    LET hash == commitment_digest(seed, nonce, committer)
    IN  [hash |-> hash, commitment |-> Commitment(committer, hash, ledger.timestamp, FALSE)]

\* mutant of verify_reveal: the seed is left out of the recomputed digest
verify_reveal_seedless(stored_hash, reveal, committer) ==
    /\ Len(stored_hash) = 4
    /\ stored_hash[3] = reveal.nonce /\ stored_hash[4] = committer

\* recomputes the digest with the committer's identity and compares
verify_reveal(stored_hash, reveal, committer) ==
    commitment_digest(reveal.seed, reveal.nonce, committer) = stored_hash

\* mutant of reveal_commitment: the revealed flag is not looked at
reveal_commitment_again(commitment, reveal) ==
    IF verify_reveal(commitment.commitment_hash, reveal, commitment.committer)
      THEN [accepted |-> TRUE, commitment |-> [commitment EXCEPT !.revealed = TRUE]]
      ELSE [accepted |-> FALSE, commitment |-> commitment]

\* the caller's part of a reveal: a second reveal is rejected, a verified one
\* flips Commitment.revealed
reveal_commitment(commitment, reveal) ==
    IF commitment.revealed
      THEN [accepted |-> FALSE, commitment |-> commitment]
      ELSE IF verify_reveal(commitment.commitment_hash, reveal, commitment.committer)
             THEN [accepted |-> TRUE, commitment |-> [commitment EXCEPT !.revealed = TRUE]]
             ELSE [accepted |-> FALSE, commitment |-> commitment]

(***************************************************************************)
(* SoulboundTicketContract (lib.rs): tickets.  Prices and payments (the    *)
(* pricing configuration, the oracle and the payment token's balances) are *)
(* outside the model: a purchase or refund whose payment fails panics and  *)
(* is an invocation that did not happen.                                   *)
(***************************************************************************)
Ticket(tier_symbol, purchase_time, is_valid) ==
    [tier_symbol |-> tier_symbol, purchase_time |-> purchase_time, is_valid |-> is_valid]

\* Base::owner_of(token_id) returns (it panics for a token that does not exist)
has_owner(token_id) ==
    token_id + 1 \in 1..Len(token_owner) /\ token_owner[token_id + 1] # None

owner_of(token_id) == token_owner[token_id + 1][1]

\* Base::sequential_mint, amount times: the next token ids in sequence go to `to`
sequential_mint(owners, to, amount) == owners \o [k \in 1..amount |-> Some(to)]

\* Base::burn
burn(owners, token_id) == [owners EXCEPT ![token_id + 1] = None]

\* the loop of batch_mint / the single mint of purchase: the counter is
\* incremented, a token is minted and a Ticket is stored under the counter
mint_tickets(to, t, amount) ==
    /\ token_id_counter' = token_id_counter + amount
    /\ token_owner' = sequential_mint(token_owner, to, amount)
    /\ ticket' = ticket \o [k \in 1..amount |-> Ticket(t, ledger.timestamp, TRUE)]
    /\ tier_supply' = [tier_supply EXCEPT ![t] =
           Some([tier_supply[t][1] EXCEPT !.minted = @ + amount])]
    /\ UNCHANGED <<ledger, tiers, lottery_vars, event_info>>
    /\ UNCHANGED harness_vars

\* mutant of batch_mint: the supply of the tier is not compared
batch_mint_unchecked(to, t, amount) ==
    /\ tier_supply[t] # None
    /\ mint_tickets(to, t, amount)

batch_mint(to, t, amount) ==
    /\ tier_supply[t] # None                              \* "Tier not found"
    /\ tier_supply[t][1].minted + amount <= tier_supply[t][1].max_supply
                                                          \* "Exceeds tier max supply"
    /\ mint_tickets(to, t, amount)

purchase(buyer, t) ==
    /\ tier_supply[t] # None                              \* "Tier not found"
    /\ tier_supply[t][1].active                           \* "Tier is not active"
    /\ tier_supply[t][1].minted < tier_supply[t][1].max_supply    \* "Tier sold out"
    /\ mint_tickets(buyer, t, 1)

refund(owner, token_id) ==
    /\ has_owner(token_id)
    /\ owner = owner_of(token_id)                         \* "Not the ticket owner"
    /\ ledger.timestamp <= event_info.refund_cutoff_time  \* "Refund window closed"
    /\ token_id \in 1..Len(ticket)                        \* get(..).unwrap()
    /\ ticket[token_id].is_valid                          \* "Ticket already invalidated"
    /\ ticket' = [ticket EXCEPT ![token_id].is_valid = FALSE]
    /\ token_owner' = burn(token_owner, token_id)
    /\ UNCHANGED <<ledger, tiers, lottery_vars, event_info, tier_supply,
                   token_id_counter>>
    /\ UNCHANGED harness_vars

\* an invocation that panicked: nothing it did is kept
Panicked == [ok |-> FALSE, token_owner |-> token_owner]

\* mutant of transfer: the override is missing and Base's transfer applies
base_transfer(from, to, token_id) ==
    IF has_owner(token_id) /\ owner_of(token_id) = from
      THEN [ok |-> TRUE, token_owner |-> [token_owner EXCEPT ![token_id + 1] = Some(to)]]
      ELSE Panicked

\* the soulbound overrides of the NonFungibleToken interface
transfer(from, to, token_id) == Panicked

transfer_from(spender, from, to, token_id) == Panicked

approve(approver, approved, token_id, live_until_ledger) == Panicked

approve_for_all(owner, operator, live_until_ledger) == Panicked

(***************************************************************************)
(* The contract under any interleaving of invocations                      *)
(***************************************************************************)
MaxSeq == 1          \* ledgers closed after deployment

LedgerSeconds == 5   \* close time of one ledger

MaxEntries == 2      \* registrations per tier

MaxAlloc == 2        \* largest total_allocations

MaxSupply == 2       \* largest max_supply of a tier

NoInput == [fn |-> "none"]

Init ==
    /\ ContractInit
    /\ entropy_state = None
    /\ input = NoInput
    /\ output = None

\* Spec follows one round (one tier) through every strategy and timeline
OneTier == {1}

CloseLedger ==
    /\ ledger.sequence < MaxSeq
    /\ AdvanceLedger(LedgerSeconds)

AddTier == \E t \in OneTier : add_tier(t, MaxSupply)

InitializeLottery ==
    \E t \in OneTier, strategy_type \in StrategyTypes, total_allocations \in 1..MaxAlloc,
       finalization_ledger \in 0..MaxSeq :
        initialize_lottery(t, strategy_type, total_allocations, finalization_ledger, 0, 1)

\* the addresses register_lottery_entry draws its participant from
Registrants == {1, 2}

RegisterLotteryEntry ==
    \E t \in OneTier, p \in Registrants :
        /\ entry_count[t] < MaxEntries
        /\ register_lottery_entry(t, p)

GenerateLotteryRandomness ==
    \E t \in OneTier, batch_size \in {MaxAlloc} :
        generate_lottery_randomness(t, batch_size)

\* the batches the admin passes to execute_lottery_allocation
ExecuteBatches == {[k \in 1..n |-> r] : n \in 0..MaxAlloc, r \in 0..1}

ExecuteLotteryAllocation ==
    \E t \in OneTier, randomness_values \in ExecuteBatches :
        execute_lottery_allocation(t, randomness_values)

Next ==
    \/ CloseLedger
    \/ AddTier
    \/ InitializeLottery
    \/ RegisterLotteryEntry
    \/ GenerateLotteryRandomness
    \/ ExecuteLotteryAllocation

Spec == Init /\ [][Next]_vars

(***************************************************************************)
(* SpecTiers: the rounds of all tiers side by side, each a Lottery or FCFS *)
(* round that may finalize at once                                         *)
(***************************************************************************)
TiersAddTier == \E t \in Tiers : add_tier(t, MaxSupply)

TiersInitializeLottery ==
    \E t \in Tiers, strategy_type \in {"FCFS", "Lottery"} :
        initialize_lottery(t, strategy_type, MaxAlloc, 0, 0, 1)

TiersRegisterLotteryEntry ==
    \E t \in Tiers :
        /\ entry_count[t] < MaxEntries
        /\ register_lottery_entry(t, 1)

TiersGenerateLotteryRandomness ==
    \E t \in Tiers : generate_lottery_randomness(t, MaxAlloc)

TiersExecuteLotteryAllocation ==
    \E t \in Tiers, randomness_values \in {<<0>>, <<1, 0>>} :
        execute_lottery_allocation(t, randomness_values)

NextTiers ==
    \/ TiersAddTier
    \/ TiersInitializeLottery
    \/ TiersRegisterLotteryEntry
    \/ TiersGenerateLotteryRandomness
    \/ TiersExecuteLotteryAllocation

SpecTiers == Init /\ [][NextTiers]_vars

(***************************************************************************)
(* SpecRegister: registrations for one tier within one ledger, before and  *)
(* after initialize_lottery stores the tier's anti-sniping configuration   *)
(***************************************************************************)
MaxRegistrations == 12

RegisterAddTier == add_tier(1, MaxSupply)

RegisterInitializeLottery == initialize_lottery(1, "Lottery", MaxAlloc, 0, 0, 1)

RegisterEntry ==
    \E p \in {1, 2} :
        /\ entry_count[1] < MaxRegistrations
        /\ register_lottery_entry(1, p)

NextRegister ==
    \/ RegisterAddTier
    \/ RegisterInitializeLottery
    \/ RegisterEntry

SpecRegister == Init /\ [][NextRegister]_vars

(***************************************************************************)
(* Engine harness: one call of an AllocationEngine function on the         *)
(* arguments in input                                                      *)
(***************************************************************************)
InitEngine ==
    /\ ContractInit
    /\ entropy_state = None
    /\ input \in EngineInputs
    /\ output = None

Call_allocate_fcfs ==
    /\ output = None /\ input.fn = "allocate_fcfs"
    /\ output' = Some(allocate_fcfs(input.entries, input.quantity))
    /\ UNCHANGED <<contract_vars, entropy_state, input>>

Call_allocate_lottery ==
    /\ output = None /\ input.fn = "allocate_lottery"
    /\ output' = Some(allocate_lottery(input.entries, input.randomness_values,
                                       input.quantity))
    /\ UNCHANGED <<contract_vars, entropy_state, input>>

Call_allocate_whitelist ==
    /\ output = None /\ input.fn = "allocate_whitelist"
    /\ output' = Some(allocate_whitelist(input.whitelist, input.quantity))
    /\ UNCHANGED <<contract_vars, entropy_state, input>>

Call_allocate_hybrid_whitelist_lottery ==
    /\ output = None /\ input.fn = "allocate_hybrid_whitelist_lottery"
    /\ output' = Some(allocate_hybrid_whitelist_lottery(input.whitelist, input.entries,
                          input.randomness_values, input.quantity))
    /\ UNCHANGED <<contract_vars, entropy_state, input>>

Call_allocate_time_weighted ==
    /\ output = None /\ input.fn = "allocate_time_weighted"
    /\ output' = Some(allocate_time_weighted(input.current_time, input.entries,
                          input.randomness_values, input.quantity))
    /\ UNCHANGED <<contract_vars, entropy_state, input>>

Call_check_anti_sniping ==
    /\ output = None /\ input.fn = "check_anti_sniping"
    /\ output' = Some([ok |-> TRUE,
                       allowed |-> check_anti_sniping(input.current_time,
                                       input.participant, input.config, input.entries)])
    /\ UNCHANGED <<contract_vars, entropy_state, input>>

Call_get_entropy_freshness ==
    /\ output = None /\ input.fn = "get_entropy_freshness"
    /\ \E outcome \in get_entropy_freshness(input.current_counter, input.last_counter,
                                            input.max_reuse_count) :
          output' = Some(outcome)
    /\ UNCHANGED <<contract_vars, entropy_state, input>>

Call_compute_fairness_score ==
    /\ output = None /\ input.fn = "compute_fairness_score"
    /\ output' = Some([ok |-> TRUE,
                       score |-> compute_fairness_score(input.results,
                                                        input.total_entries)])
    /\ UNCHANGED <<contract_vars, entropy_state, input>>

NextEngine ==
    \/ Call_allocate_fcfs
    \/ Call_allocate_lottery
    \/ Call_allocate_whitelist
    \/ Call_allocate_hybrid_whitelist_lottery
    \/ Call_allocate_time_weighted
    \/ Call_check_anti_sniping
    \/ Call_get_entropy_freshness
    \/ Call_compute_fairness_score

SpecEngine == InitEngine /\ [][NextEngine]_vars

(***************************************************************************)
(* Allocation rounds over one whitelist: the caller keeps the whitelist    *)
(* and passes it to every round; the engine takes it by shared reference   *)
(* (&Vec<WhitelistEntry>) and returns only the results.  output is the     *)
(* list of the rounds that returned.                                       *)
(***************************************************************************)
MaxRounds == 2

InitRounds ==
    /\ ContractInit
    /\ entropy_state = None
    /\ input \in [fn : {"rounds"}, whitelist : Whitelists]
    /\ output = <<>>

\* one round that returned: the strategy, the quantity asked for, the results
Round(fn, quantity, ret) == [fn |-> fn, quantity |-> quantity, results |-> ret.results]

Round_allocate_whitelist ==
    \E quantity \in Quantities :
        /\ Len(output) < MaxRounds
        /\ output' = Append(output,
               Round("allocate_whitelist", quantity,
                     allocate_whitelist(input.whitelist, quantity)))
        /\ UNCHANGED <<contract_vars, entropy_state, input>>

Round_allocate_hybrid_whitelist_lottery ==
    \E quantity \in Quantities, randomness_values \in RepeatedBatches({0}) :
        LET ret == allocate_hybrid_whitelist_lottery(input.whitelist,
                       DistinctEntries(MaxLen), randomness_values, quantity)
        IN  /\ Len(output) < MaxRounds
            /\ ret.ok
            /\ output' = Append(output,
                   Round("allocate_hybrid_whitelist_lottery", quantity, ret))
            /\ UNCHANGED <<contract_vars, entropy_state, input>>

NextRounds ==
    \/ Round_allocate_whitelist
    \/ Round_allocate_hybrid_whitelist_lottery

SpecRounds == InitRounds /\ [][NextRounds]_vars

(***************************************************************************)
(* The entropy manager in use: its owner holds one EntropyState, updates   *)
(* it and derives entropy while ledgers close.  output is the list of the  *)
(* derivations made.                                                       *)
(***************************************************************************)
MaxDerivations == 2

InitEntropy ==
    /\ ContractInit
    /\ entropy_state \in
          {Some(EntropyState(ledger_hash, ledger.timestamp, c, TRUE)) : c \in U32Samples}
    /\ input = [fn |-> "entropy"]
    /\ output = <<>>

\* one derivation: who derived, in which ledger, from which counter, what
Derivation(via, source, counter, entropy) ==
    [via |-> via, source |-> source, ledger |-> ledger, counter |-> counter,
     entropy |-> entropy]

InitializeEntropy == initialize_entropy

UpdateEntropyState ==
    /\ entropy_state[1].entropy_counter \in U32Samples
    /\ update_entropy_state

Derive_generate_entropy ==
    \E source \in EntropySources :
        /\ Len(output) < MaxDerivations
        /\ output' = Append(output,
               Derivation("generate_entropy", source,
                          IF source = "MultiSource" THEN Some(multi_source_counter)
                          ELSE None,
                          generate_entropy(source)))
        /\ UNCHANGED <<contract_vars, entropy_state, input>>

Derive_generate_lottery_randomness ==
    /\ Len(output) < MaxDerivations
    /\ output' = Append(output,
           Derivation("generate_lottery_randomness", "MultiSource",
                      Some(lottery_counter), lottery_entropy))
    /\ UNCHANGED <<contract_vars, entropy_state, input>>

NextEntropy ==
    \/ CloseLedger
    \/ InitializeEntropy
    \/ UpdateEntropyState
    \/ Derive_generate_entropy
    \/ Derive_generate_lottery_randomness

SpecEntropy == InitEntropy /\ [][NextEntropy]_vars

(***************************************************************************)
(* Tickets: tiers, mints, purchases and refunds under any interleaving,    *)
(* with calls of the NonFungibleToken transfer and approval entry points;  *)
(* output holds the outcome of the last such call.                         *)
(***************************************************************************)
MaxTickets == 3      \* tickets minted over all tiers

Holders == {1, 2}

TokenIds == 0..MaxTickets

\* the tier symbols tickets are sold for
TicketTiers == {1, 2}

TicketsAddTier == \E t \in TicketTiers, max_supply \in 1..MaxSupply : add_tier(t, max_supply)

TicketsBatchMint ==
    \E to \in Holders, t \in TicketTiers, amount \in 0..MaxSupply :
        /\ token_id_counter + amount <= MaxTickets
        /\ batch_mint(to, t, amount)

TicketsPurchase ==
    \E buyer \in Holders, t \in TicketTiers :
        /\ token_id_counter < MaxTickets
        /\ purchase(buyer, t)

TicketsRefund == \E owner \in Holders, token_id \in TokenIds : refund(owner, token_id)

\* the call's outcome is recorded and the owners it leaves are stored
NftCall(fn, outcome) ==
    /\ output' = Some([fn |-> fn, ok |-> outcome.ok])
    /\ token_owner' = outcome.token_owner
    /\ UNCHANGED <<ledger, tiers, lottery_vars, event_info, tier_supply,
                   token_id_counter, ticket, entropy_state, input>>

TicketsTransfer ==
    \E from \in Holders, to \in Holders, token_id \in TokenIds :
        NftCall("transfer", transfer(from, to, token_id))

TicketsTransferFrom ==
    \E spender \in Holders, from \in Holders, to \in Holders, token_id \in TokenIds :
        NftCall("transfer_from", transfer_from(spender, from, to, token_id))

TicketsApprove ==
    \E approver \in Holders, approved \in Holders, token_id \in TokenIds :
        NftCall("approve", approve(approver, approved, token_id, MaxSeq))

TicketsApproveForAll ==
    \E owner \in Holders, operator \in Holders :
        NftCall("approve_for_all", approve_for_all(owner, operator, MaxSeq))

NextTickets ==
    \/ CloseLedger
    \/ TicketsAddTier
    \/ TicketsBatchMint
    \/ TicketsPurchase
    \/ TicketsRefund
    \/ TicketsTransfer
    \/ TicketsTransferFrom
    \/ TicketsApprove
    \/ TicketsApproveForAll

SpecTickets == Init /\ [][NextTickets]_vars

(***************************************************************************)
(* Proofs: one proof is generated at some ledger and then presented for    *)
(* verification, as generated or with one field altered, in that ledger or *)
(* a later one.  output holds the proof and the verifications so far.      *)
(***************************************************************************)
MaxNonce == 1        \* nonces are 0..MaxNonce

MaxChecks == 2       \* verifications (reveal attempts) after one generation

Seeds == {"seed_a", "seed_b"}

InitVrf ==
    /\ ContractInit
    /\ entropy_state = None
    /\ input = [fn |-> "verify_lottery_randomness"]
    /\ output = None

VrfGenerate ==
    /\ output = None
    /\ \E seed \in Seeds, nonce \in 0..MaxNonce :
          output' = Some([proof |-> generate_vrf_randomness(seed, nonce).proof,
                          checks |-> <<>>])
    /\ UNCHANGED <<contract_vars, entropy_state, input>>

\* the proof with exactly one of output, input, ledger_sequence replaced
Alterations(proof) ==
    {[proof EXCEPT !.output = o] :
        o \in {vrf_output(s, n, h) : s \in Seeds, n \in 0..MaxNonce, h \in 0..MaxSeq}
               \ {proof.output}}
    \cup {[proof EXCEPT !.input = s] : s \in Seeds \ {proof.input}}
    \cup {[proof EXCEPT !.ledger_sequence = h] :
             h \in (0..(MaxSeq + 1)) \ {proof.ledger_sequence}}

VrfVerify ==
    /\ output # None
    /\ Len(output[1].checks) < MaxChecks
    /\ \E presented \in {output[1].proof} \cup Alterations(output[1].proof) :
          output' = Some([output[1] EXCEPT !.checks = Append(@,
              [presented |-> presented, at |-> ledger.sequence,
               valid |-> verify_lottery_randomness(presented, output[1].proof.input,
                             output[1].proof.ledger_sequence)])])
    /\ UNCHANGED <<contract_vars, entropy_state, input>>

NextVrf ==
    \/ CloseLedger
    \/ VrfGenerate
    \/ VrfVerify

SpecVrf == InitVrf /\ [][NextVrf]_vars

(***************************************************************************)
(* Commitments: one commitment is made and reveals are attempted on it.    *)
(* output holds the committed secret, the published hash, the Commitment   *)
(* record and the attempts so far.                                         *)
(***************************************************************************)
InitCommit ==
    /\ ContractInit
    /\ entropy_state = None
    /\ input = [fn |-> "verify_reveal"]
    /\ output = None

CommitSeed ==
    /\ output = None
    /\ \E seed \in Seeds, nonce \in 0..MaxNonce, committer \in Holders :
          output' = Some([seed |-> seed, nonce |-> nonce,
                          hash |-> commit(seed, nonce, committer).hash,
                          commitment |-> commit(seed, nonce, committer).commitment,
                          attempts |-> <<>>])
    /\ UNCHANGED <<contract_vars, entropy_state, input>>

RevealSeed ==
    /\ output # None
    /\ Len(output[1].attempts) < MaxChecks
    /\ \E seed \in Seeds, nonce \in 0..MaxNonce :
          LET reveal == Reveal(seed, nonce, ledger.timestamp)
              outcome == reveal_commitment(output[1].commitment, reveal)
          IN  output' = Some([output[1] EXCEPT
                  !.commitment = outcome.commitment,
                  !.attempts = Append(@,
                      [reveal |-> reveal,
                       valid |-> verify_reveal(output[1].hash, reveal,
                                               output[1].commitment.committer),
                       accepted |-> outcome.accepted])])
    /\ UNCHANGED <<contract_vars, entropy_state, input>>

NextCommit ==
    \/ CloseLedger
    \/ CommitSeed
    \/ RevealSeed

SpecCommit == InitCommit /\ [][NextCommit]_vars

\* the five allocation strategies
Strategies ==
    {"allocate_fcfs", "allocate_lottery", "allocate_whitelist",
     "allocate_hybrid_whitelist_lottery", "allocate_time_weighted"}

\* the value a finished engine call returned
Ret == output[1]

Called(fn) == output # None /\ input.fn = fn

(***************************************************************************)
(* C1: for N entries and a randomness batch of K <= N values (quantity >=  *)
(* K), allocate_lottery never selects an entry twice: with distinct        *)
(* participants the K winners are pairwise distinct.                       *)
(***************************************************************************)
C1_LotteryWinnersDistinct ==
    (/\ Called("allocate_lottery")
     /\ Len(input.randomness_values) <= Len(input.entries)
     /\ input.quantity >= Len(input.randomness_values)
     /\ Ret.ok)
    => \A i, j \in 1..Len(Ret.results) :
          i # j => Ret.results[i].winner # Ret.results[j].winner

(***************************************************************************)
(* C2: for N >= 1 entries and K = min(quantity, len(randomness_values))    *)
(* <= N, allocate_lottery returns exactly K results, the i-th with         *)
(* allocation_index = i, randomness_value = randomness_values[i] and       *)
(* weight_applied = 1.                                                     *)
(***************************************************************************)
C2_LotteryResultShape ==
    (/\ Called("allocate_lottery")
     /\ Len(input.entries) >= 1
     /\ Min(input.quantity, Len(input.randomness_values)) <= Len(input.entries))
    => /\ Ret.ok
       /\ Len(Ret.results) = Min(input.quantity, Len(input.randomness_values))
       /\ \A k \in 1..Len(Ret.results) :
             /\ Ret.results[k].allocation_index = k - 1
             /\ Ret.results[k].randomness_value = input.randomness_values[k]
             /\ Ret.results[k].weight_applied = 1

C2_Witness ==
    /\ Called("allocate_lottery")
    /\ Len(input.entries) = MaxLen
    /\ input.quantity = MaxLen
    /\ Len(input.randomness_values) = MaxLen
    /\ Ret.ok /\ Len(Ret.results) = MaxLen

(***************************************************************************)
(* C3: whenever one of the five strategies returns, it returns at most     *)
(* quantity results.                                                       *)
(***************************************************************************)
C3_AtMostQuantity ==
    (output # None /\ input.fn \in Strategies /\ Ret.ok)
    => Len(Ret.results) <= input.quantity

C3_Witness ==
    /\ Called("allocate_whitelist")
    /\ input.quantity >= 1
    /\ Len(Ret.results) = input.quantity
    /\ Cardinality({k \in 1..Len(input.whitelist) :
                       whitelist_eligible(input.whitelist[k])}) > input.quantity

(***************************************************************************)
(* C7: check_anti_sniping is true iff the number of entries of the         *)
(* participant with entry_time >= now saturating-minus rate_limit_window   *)
(* is below max_entries_per_address; other participants' entries do not    *)
(* count.                                                                  *)
(***************************************************************************)
C7_AntiSnipingPredicate ==
    Called("check_anti_sniping")
    => (Ret.allowed <=>
          Cardinality({k \in 1..Len(input.entries) :
              /\ input.entries[k].participant = input.participant
              /\ input.entries[k].entry_time
                    >= Max(0, input.current_time - input.config.rate_limit_window)})
            < input.config.max_entries_per_address)

C7_Witness ==
    /\ Called("check_anti_sniping")
    /\ ~Ret.allowed
    /\ input.config.max_entries_per_address = 2
    /\ Len(input.entries) = 3
    /\ \E k \in 1..3 : /\ input.entries[k].participant # input.participant
                       /\ input.entries[k].entry_time = input.current_time
    /\ input.config.rate_limit_window < input.current_time

(***************************************************************************)
(* C10: a strategy called with quantity = 0 or with an empty entries list  *)
(* (any randomness) returns an empty or partial result and never aborts.   *)
(***************************************************************************)
C10_DegenerateInputsReturn ==
    (/\ output # None /\ input.fn \in Strategies
     /\ \/ input.quantity = 0
        \/ (input.fn # "allocate_whitelist" /\ Len(input.entries) = 0))
    => Ret.ok

(***************************************************************************)
(* C11: when quantity and the length of the randomness batch exceed the    *)
(* number of entries N >= 1, allocate_lottery caps the winner count at the *)
(* pool size: it returns N results without aborting.                       *)
(***************************************************************************)
C11_LotteryCapsAtPoolSize ==
    (/\ Called("allocate_lottery")
     /\ Len(input.entries) >= 1
     /\ input.quantity > Len(input.entries)
     /\ Len(input.randomness_values) > Len(input.entries))
    => Ret.ok /\ Len(Ret.results) = Len(input.entries)

(***************************************************************************)
(* C12: allocate_fcfs(entries, q) returns exactly min(q, len(entries))     *)
(* results, the i-th being entries[i].participant with allocation_index    *)
(* i, randomness_value 0 and weight_applied 1, in arrival order.           *)
(***************************************************************************)
C12_FcfsOrderPreserved ==
    Called("allocate_fcfs")
    => /\ Ret.ok
       /\ Len(Ret.results) = Min(input.quantity, Len(input.entries))
       /\ \A k \in 1..Len(Ret.results) :
             /\ Ret.results[k].winner = input.entries[k].participant
             /\ Ret.results[k].allocation_index = k - 1
             /\ Ret.results[k].randomness_value = 0
             /\ Ret.results[k].weight_applied = 1

\* fewer slots than entries, and the first and the last entry differ
C12_Witness ==
    /\ Called("allocate_fcfs")
    /\ input.quantity >= 2
    /\ input.quantity < Len(input.entries)
    /\ input.entries[1].participant # input.entries[Len(input.entries)].participant
    /\ Len(Ret.results) = input.quantity

(***************************************************************************)
(* C13: allocate_whitelist and the whitelist phase of                      *)
(* allocate_hybrid_whitelist_lottery never return an entry with non-zero   *)
(* allocation_limit and allocated >= allocation_limit; the entries with    *)
(* allocation_limit = 0 or allocated < allocation_limit are admitted in    *)
(* stored order until quantity is reached.                                 *)
(***************************************************************************)
\* the claim's own reading of "may still be allocated to"
HasRoom(entry) ==
    entry.allocation_limit = 0 \/ entry.allocated < entry.allocation_limit

\* the entries the whitelist phase must admit: the first `quantity` entries
\* with room, in stored order
Admitted(whitelist, quantity) ==
    SubSeq(SelectSeq(whitelist, HasRoom), 1,
           Min(quantity, Len(SelectSeq(whitelist, HasRoom))))

C13_WhitelistCap ==
    (/\ output # None
     /\ input.fn \in {"allocate_whitelist", "allocate_hybrid_whitelist_lottery"}
     /\ Ret.ok)
    => LET admitted == Admitted(input.whitelist, input.quantity)
       IN  /\ Len(Ret.results) >= Len(admitted)
           /\ input.fn = "allocate_whitelist" => Len(Ret.results) = Len(admitted)
           /\ \A k \in 1..Len(admitted) :
                 /\ Ret.results[k].winner = admitted[k].address
                 /\ Ret.results[k].weight_applied = admitted[k].weight

\* an exhausted entry stands before an entry with room, and a slot is awarded
C13_Witness ==
    /\ Called("allocate_whitelist")
    /\ Len(input.whitelist) = 2
    /\ ~HasRoom(input.whitelist[1])
    /\ HasRoom(input.whitelist[2])
    /\ input.quantity >= 1
    /\ Len(Ret.results) = 1
    /\ Ret.results[1].winner = input.whitelist[2].address

(***************************************************************************)
(* C14: across any sequence of whitelist / hybrid rounds over the same     *)
(* whitelist, every slot awarded to an entry counts against its            *)
(* allocated: the slots already allocated plus the slots awarded over the  *)
(* rounds never exceed a non-zero allocation_limit.                        *)
(***************************************************************************)
\* the whitelist-phase slots of round r that went to whitelist entry k
SlotsInRound(r, k) ==
    Cardinality({i \in 1..Len(Admitted(input.whitelist, output[r].quantity)) :
                    output[r].results[i].winner = input.whitelist[k].address})

RECURSIVE SlotsAwarded(_, _)
SlotsAwarded(r, k) ==
    IF r = 0 THEN 0 ELSE SlotsInRound(r, k) + SlotsAwarded(r - 1, k)

C14_AllocatedWithinLimit ==
    input.fn = "rounds"
    => \A k \in 1..Len(input.whitelist) :
          input.whitelist[k].allocation_limit # 0
          => input.whitelist[k].allocated + SlotsAwarded(Len(output), k)
                <= input.whitelist[k].allocation_limit

(***************************************************************************)
(* C15: when allocate_hybrid_whitelist_lottery returns, the W whitelist    *)
(* winners come first with allocation_index 0..W-1, then the lottery       *)
(* winners drawn for remaining = quantity - W with allocation_index        *)
(* W..W+L-1: the indices are dense and strictly increasing, and W never    *)
(* exceeds quantity.                                                       *)
(***************************************************************************)
C15_HybridOrdering ==
    (Called("allocate_hybrid_whitelist_lottery") /\ Ret.ok)
    => LET admitted == Admitted(input.whitelist, input.quantity)
           W == Len(admitted)
           lottery == allocate_lottery(input.entries, input.randomness_values,
                                       input.quantity - W)
       IN  /\ W <= input.quantity
           /\ lottery.ok
           /\ Len(Ret.results) = W + Len(lottery.results)
           /\ \A k \in 1..Len(Ret.results) : Ret.results[k].allocation_index = k - 1
           /\ \A k \in 1..W :
                 /\ Ret.results[k].winner = admitted[k].address
                 /\ Ret.results[k].randomness_value = 0
           /\ \A k \in 1..Len(lottery.results) :
                 /\ Ret.results[W + k].winner = lottery.results[k].winner
                 /\ Ret.results[W + k].randomness_value
                       = lottery.results[k].randomness_value

\* two whitelist winners followed by two lottery winners
C15_Witness ==
    /\ Called("allocate_hybrid_whitelist_lottery")
    /\ Ret.ok
    /\ input.quantity = 4
    /\ Len(Admitted(input.whitelist, input.quantity)) = 2
    /\ Len(Ret.results) = 4
    /\ Ret.results[3].allocation_index = 2
    /\ Ret.results[4].allocation_index = 3

(***************************************************************************)
(* C16: within one allocate_time_weighted call no entry index is selected  *)
(* twice: with distinct participants the winners are pairwise distinct     *)
(* (checked for draws that the pool can serve: no more draws than entries).*)
(***************************************************************************)
C16_TimeWeightedNoRepeat ==
    (/\ Called("allocate_time_weighted")
     /\ Min(input.quantity, Len(input.randomness_values)) <= Len(input.entries)
     /\ Ret.ok)
    => \A i, j \in 1..Len(Ret.results) :
          i # j => Ret.results[i].winner # Ret.results[j].winner

(***************************************************************************)
(* C18 as stated: every update_entropy_state call strictly increases       *)
(* EntropyState.entropy_counter, for every u32 counter value, and no       *)
(* operation other than initialize_entropy resets (decreases) it.          *)
(***************************************************************************)
Counter == entropy_state[1].entropy_counter

C18_CounterStrictlyIncreases ==
    [][/\ update_entropy_state => wide_lt(Counter, Counter')
       /\ ~initialize_entropy => wide_le(Counter, Counter')]_vars

(***************************************************************************)
(* C18 amended: every update_entropy_state call increases entropy_counter  *)
(* by exactly one while it is below u32::MAX and leaves it at u32::MAX     *)
(* once there (saturating), and no operation other than                    *)
(* initialize_entropy ever decreases it.                                   *)
(***************************************************************************)
C18_CounterSaturates ==
    [][/\ update_entropy_state =>
             IF Counter = U32_MAX THEN Counter' = U32_MAX
             ELSE Counter' = wide_add(Counter, U32(1)) /\ wide_lt(Counter, Counter')
       /\ ~initialize_entropy => wide_le(Counter, Counter')]_vars

\* an update made in a later ledger has left the counter at u32::MAX
C18_Witness ==
    /\ entropy_state # None
    /\ Counter = U32_MAX
    /\ entropy_state[1].last_entropy_timestamp > 0
    /\ entropy_state[1].last_entropy_timestamp = ledger.timestamp

(***************************************************************************)
(* C19: two MultiSource derivations made in the same ledger state, by      *)
(* generate_entropy(MultiSource) or by generate_lottery_randomness, are    *)
(* fed distinct counter values and yield different entropy.                *)
(***************************************************************************)
C19_DistinctCountersPerLedger ==
    input.fn = "entropy"
    => \A i, j \in 1..Len(output) :
          (/\ i < j
           /\ output[i].source = "MultiSource" /\ output[j].source = "MultiSource"
           /\ output[i].ledger = output[j].ledger)
          => /\ output[i].counter # output[j].counter
             /\ output[i].entropy # output[j].entropy

(***************************************************************************)
(* C20: for all u32 inputs get_entropy_freshness(current, last, max_reuse) *)
(* returns, without overflow, a value in [0,100]: 0 when current           *)
(* saturating-minus last >= max_reuse (max_reuse = 0 included), otherwise  *)
(* (max_reuse - age) * 100 / max_reuse.                                    *)
(***************************************************************************)
\* the value of the claim's formula, in exact arithmetic
FreshnessPercentage(current, last, max_reuse) ==
    LET age == IF wide_lt(current, last) THEN U32(0) ELSE u32_sub(current, last)
    IN  IF wide_le(max_reuse, age) THEN 0
        ELSE wide_div(wide_mul(u32_sub(max_reuse, age), 100), max_reuse, 100)

C20_FreshnessInRange ==
    Called("get_entropy_freshness")
    => /\ Ret.ok
       /\ Ret.value \in 0..100
       /\ Ret.value = FreshnessPercentage(input.current_counter, input.last_counter,
                                          input.max_reuse_count)

(***************************************************************************)
(* Claims about the contract                                               *)
(***************************************************************************)
\* the round of tier t is finalized: an execution has succeeded
Finalized(t) ==
    allocation_state[t] # None /\ allocation_state[t][1].allocation_complete

(***************************************************************************)
(* C4: once execute_lottery_allocation has succeeded for a tier (round     *)
(* finalized, allocation_complete = true), every later                     *)
(* execute_lottery_allocation for the tier is rejected and the tier's      *)
(* stored results never change.                                            *)
(***************************************************************************)
C4_FinalizedOnce ==
    [][\A t \in Tiers :
          Finalized(t) =>
             /\ \A randomness_values \in ExecuteBatches :
                   ~execute_outcome(t, randomness_values).ok
             /\ lottery_results'[t] = lottery_results[t]]_vars

(***************************************************************************)
(* C5: once finalization of a tier's round has begun (randomness generated *)
(* or allocation executed for the tier), register_lottery_entry admits no  *)
(* new entry: the entry count and the stored entries stay unchanged.       *)
(***************************************************************************)
FinalizationBegun(t) == t \in randomness_for \/ lottery_results[t] # None

C5_NoEntryAfterFinalization ==
    [][\A t \in Tiers :
          FinalizationBegun(t) =>
             /\ entry_count'[t] = entry_count[t]
             /\ lottery_entry'[t] = lottery_entry[t]]_vars

(***************************************************************************)
(* C6: a registration by participant P for a tier is admitted only if      *)
(* fewer than max_entries_per_address of ALL the entries stored for the    *)
(* tier belong to P with entry_time within the last rate_limit_window      *)
(* seconds; otherwise the call aborts and the entry count is unchanged.    *)
(***************************************************************************)
\* the entries of participant p stored for tier t inside the rate-limit window
RecentEntriesOf(t, p) ==
    {i \in DOMAIN lottery_entry[t] :
        /\ lottery_entry[t][i].participant = p
        /\ lottery_entry[t][i].entry_time
              >= Max(0, ledger.timestamp - anti_sniping_cfg[t][1].rate_limit_window)}

C6_RateLimitCountsAllEntries ==
    [][\A t \in Tiers :
          (anti_sniping_cfg[t] # None /\ entry_count'[t] # entry_count[t])
          => Cardinality(RecentEntriesOf(t,
                 lottery_entry'[t][entry_count[t]].participant))
               < anti_sniping_cfg[t][1].max_entries_per_address]_vars

(***************************************************************************)
(* C17: for every tier, after any sequence of register_lottery_entry calls *)
(* (admitted or aborted) the stored entries occupy exactly the indices     *)
(* 0..count-1, count being the tier's LotteryEntryCount: an admitted entry *)
(* gets the next index, and no stored entry is ever overwritten.           *)
(***************************************************************************)
DenseIndices(entries, count) == DOMAIN entries = 0..(count - 1)

TierStorage(t) ==
    <<t \in tiers, allocation_state[t], anti_sniping_cfg[t], entry_count[t],
      lottery_entry[t], lottery_results[t]>>

C8_TiersIndependent ==
    [][\A a, b \in Tiers :
          /\ (a # b /\ TierStorage(a)' # TierStorage(a))
                => TierStorage(b)' = TierStorage(b)
          /\ b \notin randomness_for
                => /\ \A randomness_values \in ExecuteBatches :
                         ~execute_outcome(b, randomness_values).ok
                   /\ lottery_results'[b] = lottery_results[b]]_vars

(***************************************************************************)
(* C9: while no randomness has been generated (no VRF state stored, or     *)
(* randomness_generated false), execute_lottery_allocation aborts and      *)
(* leaves the stored results and the allocation state (allocated_count,    *)
(* allocation_complete) unchanged.                                         *)
(***************************************************************************)
\* allocated_count and allocation_complete of every tier
AllocationProgress ==
    [t \in Tiers |->
        IF allocation_state[t] = None THEN None
        ELSE <<allocation_state[t][1].allocated_count,
               allocation_state[t][1].allocation_complete>>]

C9_NoRandomnessNoAllocation ==
    [][(vrf_state = None \/ ~vrf_state[1].randomness_generated)
          => /\ \A t \in Tiers, randomness_values \in ExecuteBatches :
                   ~execute_outcome(t, randomness_values).ok
             /\ lottery_results' = lottery_results
             /\ \A t \in Tiers :
                   allocation_state[t] # None /\ allocation_state'[t] # None
                      => AllocationProgress'[t] = AllocationProgress[t]]_vars

\* an initialized FCFS round with entries, everything an execution needs except
\* the randomness
C9_Witness ==
    /\ vrf_state = None
    /\ allocation_state[1] # None
    /\ allocation_state[1][1].strategy = "FCFS"
    /\ entry_count[1] > 0
    /\ ~execute_outcome(1, <<>>).ok

(***************************************************************************)
(* C21: compute_fairness_score returns a value in [0, 100] for every       *)
(* results list and every total_entries, and exactly 100 when the results  *)
(* list is empty or total_entries is 0.                                    *)
(***************************************************************************)
C21_FairnessScoreRange ==
    Called("compute_fairness_score")
    => /\ Ret.score \in 0..100
       /\ (Len(input.results) = 0 \/ input.total_entries = 0) => Ret.score = 100

\* three results over one entry: the selection rate (300) exceeds 200 and the
\* score bottoms out at 0
C21_Witness ==
    /\ Called("compute_fairness_score")
    /\ Len(input.results) = 3 /\ input.total_entries = 1
    /\ Ret.score = 0

(***************************************************************************)
(* Time-weighted claims: the entries of the harness carry participant k at *)
(* position k, so a result's winner names the entry that was drawn.        *)
(***************************************************************************)
EntryTimes(entries) == {entries[k].entry_time : k \in 1..Len(entries)}

MinEntryTime(entries) == CHOOSE t \in EntryTimes(entries) : \A u \in EntryTimes(entries) : t <= u

MaxEntryTime(entries) == CHOOSE t \in EntryTimes(entries) : \A u \in EntryTimes(entries) : t >= u

\* max(1, 100 - age * 100 / (time_span + 1)) over the integers; 100 when time_span = 0
ExactWeight(current_time, entry_time, time_span) ==
    LET age_fraction == wide_div_small(wide_mul(U32(current_time - entry_time), 100), time_span + 1)
    IN  IF time_span = 0 THEN 100
        ELSE IF wide_le(U32(100), age_fraction) THEN 1
        ELSE Max(1, 100 - age_fraction[2])

\* the sum of the first j weights
RECURSIVE CumulativeWeight(_, _)
CumulativeWeight(weights, j) ==
    IF j = 0 THEN 0 ELSE CumulativeWeight(weights, j - 1) + weights[j]

TimeWeightedReturned == Called("allocate_time_weighted") /\ Ret.ok

(***************************************************************************)
(* C26: allocate_time_weighted computes the weights relative to time_span  *)
(* = (maximum entry_time) - (minimum entry_time) over all entries, for     *)
(* every ordering of the list: the weight applied to a drawn entry is the  *)
(* weight formula evaluated with that span.                                *)
(***************************************************************************)
C26_SpanIsMaxMinusMin ==
    TimeWeightedReturned
    => \A i \in 1..Len(Ret.results) :
          Ret.results[i].weight_applied
            = time_weight(input.current_time,
                          input.entries[Ret.results[i].winner].entry_time,
                          MinEntryTime(input.entries), MaxEntryTime(input.entries))

(***************************************************************************)
(* C27: every weight is max(1, 100 - age_fraction) with age_fraction =     *)
(* (now - entry_time) * 100 / (time_span + 1) computed without wrap-around *)
(* or truncation, so it lies in [1, 100], and it is 100 when time_span is  *)
(* 0 (checked on lists whose first entry is the earliest, where the span   *)
(* the code uses is the span of the list).                                 *)
(***************************************************************************)
C27_WeightExact ==
    (/\ TimeWeightedReturned
     /\ Len(input.entries) > 0
     /\ input.entries[1].entry_time = MinEntryTime(input.entries))
    => \A i \in 1..Len(Ret.results) :
          /\ Ret.results[i].weight_applied \in 1..100
          /\ Ret.results[i].weight_applied
               = ExactWeight(input.current_time,
                             input.entries[Ret.results[i].winner].entry_time,
                             MaxEntryTime(input.entries) - MinEntryTime(input.entries))

(***************************************************************************)
(* C28: for a non-empty entries list each of the min(quantity,             *)
(* len(randomness_values)) draws yields exactly one result: with r =       *)
(* randomness mod total_weight the winner is the first entry j whose       *)
(* cumulative weight w_0 + ... + w_j is >= r; allocation_index is the draw *)
(* number, randomness_value the raw randomness and weight_applied is w_j.  *)
(***************************************************************************)
C28_DrawSelectsFirstCumulative ==
    (TimeWeightedReturned /\ Len(input.entries) > 0)
    => LET w == time_weights(input.current_time, input.entries)
           total_weight == CumulativeWeight(w, Len(w))
       IN  /\ Len(Ret.results) = Min(input.quantity, Len(input.randomness_values))
           /\ \A i \in 1..Len(Ret.results) :
                 LET r == input.randomness_values[i] % total_weight
                     j == Ret.results[i].winner
                 IN  /\ CumulativeWeight(w, j) >= r
                     /\ CumulativeWeight(w, j - 1) < r \/ j = 1
                     /\ Ret.results[i].allocation_index = i - 1
                     /\ Ret.results[i].randomness_value = input.randomness_values[i]
                     /\ Ret.results[i].weight_applied = w[j]

\* three draws over three entries of weight 100 that fall on the third, the
\* second and the first entry
C28_Witness ==
    /\ TimeWeightedReturned
    /\ Len(input.entries) = 3
    /\ Len(Ret.results) = 3
    /\ Ret.results[1].winner = 3 /\ Ret.results[2].winner = 2 /\ Ret.results[3].winner = 1
    /\ \A i \in 1..3 : Ret.results[i].weight_applied = 100

(***************************************************************************)
(* C29: the selection is proportional to weight: the number of residues r  *)
(* in [0, total_weight) that select entry j equals w_j, so every entry,    *)
(* including the last one and one of weight 1, can be selected.            *)
(***************************************************************************)
C29_SelectionProportional ==
    (TimeWeightedReturned /\ Len(Ret.results) > 0)
    => LET w == time_weights(input.current_time, input.entries)
           total_weight == CumulativeWeight(w, Len(w))
       IN  \A j \in 1..Len(w) :
              Cardinality({r \in 0..(total_weight - 1) :
                              weighted_pick(w, r, 0, 0) = Some(j - 1)}) = w[j]

(***************************************************************************)
(* C30: no results are stored for a tier before the ledger sequence has    *)
(* reached the tier's finalization_ledger: while sequence <                *)
(* finalization_ledger, generate_lottery_randomness aborts without writing *)
(* VRF state for the tier and execute_lottery_allocation does not store    *)
(* results for it.                                                         *)
(***************************************************************************)
BeforeFinalization(t) ==
    /\ allocation_state[t] # None
    /\ ledger.sequence < allocation_state[t][1].finalization_ledger

C30_NoResultsBeforeFinalization ==
    [][\A t \in Tiers :
          BeforeFinalization(t)
          => /\ generate_lottery_randomness_panics(t)
             /\ t \in randomness_for' => t \in randomness_for
             /\ lottery_results'[t] = lottery_results[t]]_vars

(***************************************************************************)
(* C25: tickets are soulbound: transfer, transfer_from, approve and        *)
(* approve_for_all abort for every caller and token, and the owner of a    *)
(* minted ticket never changes: ownership appears by a mint (a new token   *)
(* id) and disappears by the burn of a refund.                             *)
(***************************************************************************)
C25_Soulbound ==
    [][/\ (output' # None /\ output'[1].fn \in {"transfer", "transfer_from", "approve",
                                                "approve_for_all"})
          => ~output'[1].ok
       /\ Len(token_owner') >= Len(token_owner)
       /\ \A k \in 1..Len(token_owner) :
             token_owner'[k] = token_owner[k] \/ token_owner'[k] = None]_vars

\* a transfer of a minted ticket by its owner has been attempted and the owner
\* is still the holder it was minted to; another ticket has been refunded
C25_Witness ==
    /\ output = Some([fn |-> "transfer", ok |-> FALSE])
    /\ Len(token_owner) = 3
    /\ token_owner[1] = Some(1)
    /\ token_owner[2] = None
    /\ token_owner[3] = Some(2)

(***************************************************************************)
(* C22: verify_vrf_proof(proof, input, expected_ledger) is true for every  *)
(* proof generate_vrf_randomness(input, nonce) produced at ledger sequence *)
(* expected_ledger, also when it is verified at a later ledger, and false  *)
(* when one of proof.output, proof.input, proof.ledger_sequence is         *)
(* altered.                                                                *)
(***************************************************************************)
C22_ProofSoundness ==
    (input.fn = "verify_lottery_randomness" /\ output # None)
    => \A k \in 1..Len(output[1].checks) :
          output[1].checks[k].valid = (output[1].checks[k].presented = output[1].proof)

\* a proof generated at ledger 0 was verified at ledger 1, once as generated
\* (accepted) and once with an altered ledger_sequence (refused)
C22_Witness ==
    /\ input.fn = "verify_lottery_randomness" /\ output # None
    /\ output[1].proof.ledger_sequence = 0
    /\ Len(output[1].checks) = 2
    /\ output[1].checks[1].at = 1
    /\ output[1].checks[1].presented = output[1].proof
    /\ output[1].checks[1].valid
    /\ output[1].checks[2].presented = [output[1].proof EXCEPT !.ledger_sequence = 1]
    /\ ~output[1].checks[2].valid

(***************************************************************************)
(* C23: verify_reveal applied to the hash commit(seed, nonce, committer)   *)
(* returned and a Reveal with the same seed and nonce is true, it is false *)
(* for a Reveal whose seed differs, and it always returns a boolean.       *)
(***************************************************************************)
C23_CommitmentBinding ==
    (input.fn = "verify_reveal" /\ output # None)
    => \A k \in 1..Len(output[1].attempts) :
          LET attempt == output[1].attempts[k]
          IN  /\ attempt.valid \in BOOLEAN
              /\ (attempt.reveal.seed = output[1].seed
                    /\ attempt.reveal.nonce = output[1].nonce) => attempt.valid
              /\ attempt.reveal.seed # output[1].seed => ~attempt.valid

\* a reveal of another seed was refused and the reveal of the committed seed
\* verified
C23_Witness ==
    /\ input.fn = "verify_reveal" /\ output # None
    /\ Len(output[1].attempts) = 2
    /\ output[1].attempts[1].reveal.seed # output[1].seed
    /\ output[1].attempts[1].reveal.nonce = output[1].nonce
    /\ ~output[1].attempts[1].valid
    /\ output[1].attempts[2].reveal.seed = output[1].seed
    /\ output[1].attempts[2].reveal.nonce = output[1].nonce
    /\ output[1].attempts[2].valid

(***************************************************************************)
(* C24: a Commitment's revealed flag flips from false to true at most      *)
(* once: after a successful reveal every further attempt is rejected, and  *)
(* a reveal that hashes to a value other than commitment_hash is rejected  *)
(* and leaves revealed = false.                                            *)
(***************************************************************************)
AcceptedAttempts == {k \in 1..Len(output[1].attempts) : output[1].attempts[k].accepted}

C34_ReplayRejected ==
    [][UpdateEntropyState
       => \A i \in 1..Len(output) :
             (/\ output[i].source \in {"LedgerHashWithTimestamp", "MultiSource"}
              /\ output[i].ledger = ledger)
             => ~verify_entropy_freshness(entropy_state'[1], output[i].entropy)]_vars

(***************************************************************************)
(* C36: for a non-empty results list and total_entries > 0, with rate =    *)
(* len(results) * 100 / total_entries (integer division),                  *)
(* compute_fairness_score returns 100 if 0 < rate <= 100, 100 - min(rate - *)
(* 100, 100) if rate > 100, and 50 if rate = 0.  The rate is taken here as *)
(* the integer r with r * total_entries <= len * 100 < (r + 1) *           *)
(* total_entries.                                                          *)
(***************************************************************************)
RateIs(r, len, total_entries) ==
    r * total_entries <= len * 100 /\ len * 100 < (r + 1) * total_entries

C36_FairnessScoreValue ==
    (/\ Called("compute_fairness_score")
     /\ Len(input.results) > 0 /\ input.total_entries > 0)
    => LET len == Len(input.results)
           total_entries == input.total_entries
       IN  /\ RateIs(0, len, total_entries) => Ret.score = 50
           /\ (\E r \in 1..100 : RateIs(r, len, total_entries)) => Ret.score = 100
           /\ \A r \in 101..200 :
                 RateIs(r, len, total_entries) => Ret.score = 100 - (r - 100)
           /\ len * 100 >= 200 * total_entries => Ret.score = 0

\* three results over two entries: the rate is 150 and the score 50
C36_Witness ==
    /\ Called("compute_fairness_score")
    /\ Len(input.results) = 3 /\ input.total_entries = 2
    /\ Ret.score = 50

(***************************************************************************)
(* C35: execute_lottery_allocation produces and stores winners for each of *)
(* the five strategies a round can be initialized with: once randomness    *)
(* has been generated, no strategy accepted by initialize_lottery makes    *)
(* the execution abort (the empty randomness batch suffices for a call     *)
(* that returns).                                                          *)
(***************************************************************************)
C35_EveryStrategyExecutes ==
    \A t \in Tiers :
        (allocation_state[t] # None /\ ~randomness_missing)
        => \E randomness_values \in ExecuteBatches :
              execute_outcome(t, randomness_values).ok

(***************************************************************************)
(* C37: an execute_lottery_allocation that succeeds for a tier leaves      *)
(* allocation_complete true and allocated_count equal to the number of     *)
(* results stored for the tier, which is at most total_allocations; while  *)
(* no results have been stored for a tier its allocated_count is 0 and     *)
(* allocation_complete is false.                                           *)
(***************************************************************************)
\* a step of execute_lottery_allocation for tier t: the only operation that
\* writes the results of a tier or marks its allocation complete
ExecutedStep(t) ==
    \/ lottery_results'[t] # lottery_results[t]
    \/ /\ allocation_state'[t] # allocation_state[t]
       /\ allocation_state'[t] # None
       /\ allocation_state'[t][1].allocation_complete

C37_AllocatedCountMatchesResults ==
    [][\/ UNCHANGED <<allocation_state, lottery_results>>
       \/ \A t \in Tiers :
             /\ ExecutedStep(t)
                => /\ allocation_state'[t][1].allocation_complete
                   /\ allocation_state'[t][1].allocated_count = Len(lottery_results'[t][1])
                   /\ allocation_state'[t][1].allocated_count
                        <= allocation_state'[t][1].total_allocations
             /\ (lottery_results'[t] = None /\ allocation_state'[t] # None)
                => /\ allocation_state'[t][1].allocated_count = 0
                   /\ ~allocation_state'[t][1].allocation_complete]_vars

\* two winners were stored for a round of two allocations
C37_Witness ==
    /\ lottery_results[1] # None
    /\ Len(lottery_results[1][1]) = 2
    /\ allocation_state[1][1].allocated_count = 2
    /\ allocation_state[1][1].allocation_complete

(***************************************************************************)
(* C32: once generate_lottery_randomness has stored a randomness hash, no  *)
(* later call of it, in the same ledger or a later one, replaces the hash. *)
(***************************************************************************)
C32_RandomnessHashKept ==
    [][vrf_state # None
       => /\ vrf_state' # None
          /\ vrf_state'[1].randomness_hash = vrf_state[1].randomness_hash]_vars

(***************************************************************************)
(* C33: every entry that takes part in an allocation was registered at     *)
(* least minimum_lock_period ledgers before the finalization ledger of the *)
(* round: an execution only runs over entries whose registration ledger    *)
(* (their nonce) lies that far before finalization_ledger.                 *)
(***************************************************************************)
C33_LockPeriodEnforced ==
    [][\A t \in Tiers :
          ExecutedStep(t)
          => LET entries == load_entries(t, entry_count[t], 0)
             IN  \A i \in 1..Len(entries) :
                    entries[i].nonce + minimum_lock_period
                       <= allocation_state[t][1].finalization_ledger]_vars

(***************************************************************************)
(* C31: execute_lottery_allocation only accepts the randomness whose batch *)
(* digest is the stored randomness_hash.  Batches of different values have *)
(* different digests, so in any one state at most one batch of values is   *)
(* accepted: two different batches are never both accepted.                *)
(***************************************************************************)
C31_OnlyGeneratedRandomnessAccepted ==
    \A t \in Tiers :
        \A batch, other \in ExecuteBatches :
            (/\ execute_outcome(t, batch).ok
             /\ execute_outcome(t, other).ok)
            => batch = other

(***************************************************************************)
(* C38: after any sequence of add_tier, batch_mint, purchase and refund    *)
(* every tier has minted <= max_supply; a batch_mint or purchase that      *)
(* would exceed max_supply aborts, so that minted and the token-id counter *)
(* only ever move together: every step raises the counter by exactly what  *)
(* it adds to the minted counts, and never lowers either.                  *)
(***************************************************************************)
MintedOf(supply, t) == IF supply[t] = None THEN 0 ELSE supply[t][1].minted

RECURSIVE SumMinted(_, _)
SumMinted(supply, S) ==
    IF S = {} THEN 0
    ELSE LET t == CHOOSE x \in S : TRUE
         IN  MintedOf(supply, t) + SumMinted(supply, S \ {t})

C38_SupplyNeverExceeded ==
    [][\/ UNCHANGED <<tier_supply, token_id_counter>>
       \/ /\ \A t \in Tiers :
                /\ tier_supply'[t] # None
                   => tier_supply'[t][1].minted <= tier_supply'[t][1].max_supply
                /\ MintedOf(tier_supply', t) >= MintedOf(tier_supply, t)
          /\ token_id_counter' - token_id_counter
               = SumMinted(tier_supply', Tiers) - SumMinted(tier_supply, Tiers)]_vars

\* both tiers exist, one is sold out, and a ticket of it was refunded
C38_Witness ==
    /\ \A t \in TicketTiers : tier_supply[t] # None
    /\ \E t \in TicketTiers :
          /\ tier_supply[t][1].max_supply = 2
          /\ tier_supply[t][1].minted = 2
          /\ \E token_id \in 1..Len(ticket) :
                ticket[token_id].tier_symbol = t /\ ~ticket[token_id].is_valid
    /\ token_id_counter = 3

====
